---- MODULE Spec2Model ----
(***************************************************************************)
(* Model of "src/src/compare results.py": normalisation and aggregation of *)
(* junction tables, key-based reconciliation of two aggregated tables, and *)
(* the proportional-area solver that places the two circles of the Venn    *)
(* diagram.                                                                *)
(*                                                                         *)
(* Representation choices                                                  *)
(*  - a data frame is a sequence of rows (records); the positional index   *)
(*    of pandas is the position in the sequence;                           *)
(*  - a Reference string is the sequence of its code points, so that the   *)
(*    ordering and the stripping of strings are computed, not assumed;     *)
(*  - NGS_read_count is an int64: four 16-bit limbs, least significant     *)
(*    first, two's complement, added with carry and without overflow       *)
(*    check as numpy/pandas add int64 values;                              *)
(*  - a Python float is a binary floating-point number <<m, e>> (value     *)
(*    m * 2^e) whose significand has Precision bits instead of 53; every   *)
(*    operation rounds to nearest, ties to even, as IEEE-754 does.         *)
(***************************************************************************)
EXTENDS Integers, Naturals, Sequences, FiniteSets, TLC

VARIABLES
    pc,      \* position of the running function
    arg,     \* argument(s) of a stand-alone call of _aggregate or of
             \* _circle_intersection_area
    result,  \* value returned by that call
    only_valid, only_own, both,   \* the three counts of _plot_venn
    r1, r2,                       \* the two radii
    target_area,                  \* third argument of _solve_circle_distance
    target,                       \* the clamped target
    low, high,                    \* the bisection interval
    iter,                         \* iterations of the bisection loop done
    distance,                     \* value returned by _solve_circle_distance
    raised,                       \* exception that left the function, or "none"
    valid_raw,        \* pd.read_csv(valid_path): rows with a Segment column
    own_raw,          \* one frame per path of own_paths, as read by pd.read_csv
    valid_df, own_df, \* the two aggregated tables
    missing_in_own, extra_in_own,   \* keys only in valid_df, only in own_df
    count_mismatch,   \* common keys whose counts differ, with both counts
    figure,           \* what _plot_venn drew: patches, texts, axis limits
    venn_file,        \* number of times the image file was written
    stdout,           \* what compare_results printed
    ret               \* value returned by compare_results, -1 before it returns

----------------------------------------------------------------------------
(* Bounds                                                                  *)

MaxRows == 3     \* longest row sequence handed to a stand-alone _aggregate
MaxValidRows == 2   \* longest raw valid table read by compare_results
MaxOwnRows == 2     \* longest raw own table read by compare_results
MaxCount == 6    \* largest of only_valid, only_own, both handed to the solver
Precision == 10  \* bits of the significand of a float
MinExponent == 1074   \* the least positive float is 2^(-MinExponent)

----------------------------------------------------------------------------
(* int64 arithmetic                                                        *)

LimbBase == 65536

Zero64 == <<0, 0, 0, 0>>

\* the int64 holding the small non-negative integer n
I64(n) == <<n, 0, 0, 0>>

\* 2^62
Pow62 == <<0, 0, 0, 16384>>

\* int64 addition: limb-wise with carry, the carry out of the top limb is
\* dropped (wrap-around modulo 2^64)
Add64(a, b) ==
    LET s1 == a[1] + b[1]
        s2 == a[2] + b[2] + (s1 \div LimbBase)
        s3 == a[3] + b[3] + (s2 \div LimbBase)
        s4 == a[4] + b[4] + (s3 \div LimbBase)
    IN  <<s1 % LimbBase, s2 % LimbBase, s3 % LimbBase, s4 % LimbBase>>

----------------------------------------------------------------------------
(* Strings and keys                                                        *)

chr1 == <<99, 104, 114, 49>>      \* "chr1"
chr2 == <<99, 104, 114, 50>>      \* "chr2"
Chr1 == <<67, 104, 114, 49>>      \* "Chr1"

\* Python's str ordering: lexicographic on code points
RECURSIVE StrLess(_, _)
StrLess(s, t) ==
    IF t = <<>> THEN FALSE
    ELSE IF s = <<>> THEN TRUE
    ELSE IF Head(s) # Head(t) THEN Head(s) < Head(t)
    ELSE StrLess(Tail(s), Tail(t))

KEY_COLUMNS == <<"Reference", "Start", "End">>

Row(ref, start, end, count) ==
    [Reference |-> ref, Start |-> start, End |-> end, NGS_read_count |-> count]

\* the key of a row: its values in KEY_COLUMNS
Key(row) == <<row.Reference, row.Start, row.End>>

\* the key columns compared in the wrong order: Reference, End, Start
KeyLess_end_first(k1, k2) ==
    \/ StrLess(k1[1], k2[1])
    \/ /\ k1[1] = k2[1]
       /\ \/ k1[3] < k2[3]
          \/ k1[3] = k2[3] /\ k1[2] < k2[2]

\* ordering of keys used by groupby(sort=True), sort_values and merge:
\* column by column, Reference as str, Start and End as integers
KeyLess(k1, k2) ==
    \/ StrLess(k1[1], k2[1])
    \/ /\ k1[1] = k2[1]
       /\ \/ k1[2] < k2[2]
          \/ k1[2] = k2[2] /\ k1[3] < k2[3]

Keys(df) == {Key(df[i]) : i \in DOMAIN df}

\* the keys of a set in ascending order
RECURSIVE SortKeys(_)
SortKeys(S) ==
    IF S = {} THEN <<>>
    ELSE LET m == CHOOSE k \in S : \A j \in S \ {k} : KeyLess(k, j)
         IN  <<m>> \o SortKeys(S \ {m})

----------------------------------------------------------------------------
(* _aggregate                                                              *)

\* .count() in place of .sum(): the number of rows of the group
RECURSIVE SumGroup_count(_, _)
SumGroup_count(df, k) ==
    IF df = <<>> THEN Zero64
    ELSE IF Key(Head(df)) = k
         THEN Add64(I64(1), SumGroup_count(Tail(df), k))
         ELSE SumGroup_count(Tail(df), k)

\* ["NGS_read_count"].sum() of the group with key k
RECURSIVE SumGroup(_, _)
SumGroup(df, k) ==
    IF df = <<>> THEN Zero64
    ELSE IF Key(Head(df)) = k
         THEN Add64(Head(df).NGS_read_count, SumGroup(Tail(df), k))
         ELSE SumGroup(Tail(df), k)

RECURSIVE GroupRows(_, _)
GroupRows(df, ks) ==
    IF ks = <<>> THEN <<>>
    ELSE <<Row(Head(ks)[1], Head(ks)[2], Head(ks)[3], SumGroup(df, Head(ks)))>>
         \o GroupRows(df, Tail(ks))

\* df.groupby(KEY_COLUMNS, as_index=False)["NGS_read_count"].sum():
\* one row per group, groups in ascending key order (sort=True is the default)
GroupBySum(df) == GroupRows(df, SortKeys(Keys(df)))

\* stable merge of two sorted frames
RECURSIVE Merge(_, _)
Merge(a, b) ==
    IF a = <<>> THEN b
    ELSE IF b = <<>> THEN a
    ELSE IF KeyLess(Key(Head(b)), Key(Head(a)))
         THEN <<Head(b)>> \o Merge(a, Tail(b))
         ELSE <<Head(a)>> \o Merge(Tail(a), b)

\* .sort_values(KEY_COLUMNS, kind="mergesort")
RECURSIVE SortValues(_)
SortValues(df) ==
    IF Len(df) <= 1 THEN df
    ELSE LET h == Len(df) \div 2
         IN  Merge(SortValues(SubSeq(df, 1, h)),
                   SortValues(SubSeq(df, h + 1, Len(df))))

\* groups in order of first appearance and no sort afterwards
RECURSIVE FirstSeenKeys(_, _)
FirstSeenKeys(df, seen) ==
    IF df = <<>> THEN <<>>
    ELSE IF Key(Head(df)) \in seen THEN FirstSeenKeys(Tail(df), seen)
    ELSE <<Key(Head(df))>> \o FirstSeenKeys(Tail(df), seen \cup {Key(Head(df))})

aggregate_unsorted(df) == GroupRows(df, FirstSeenKeys(df, {}))

\* .reset_index(drop=True) renumbers the rows 0..n-1: the position in the
\* sequence
_aggregate(df) == SortValues(GroupBySum(df))

----------------------------------------------------------------------------
(* Normalisation                                                           *)

\* the characters str.strip() removes: tab, LF, VT, FF, CR, FS..US, space
Whitespace == {9, 10, 11, 12, 13, 28, 29, 30, 31, 32}

RECURSIVE LStrip(_)
LStrip(s) ==
    IF s # <<>> /\ Head(s) \in Whitespace THEN LStrip(Tail(s)) ELSE s

RECURSIVE RStrip(_)
RStrip(s) ==
    IF s # <<>> /\ s[Len(s)] \in Whitespace
    THEN RStrip(SubSeq(s, 1, Len(s) - 1))
    ELSE s

\* str.lstrip() in place of str.strip()
Strip_leading_only(s) == LStrip(s)

\* str.strip()
Strip(s) == RStrip(LStrip(s))

\* A frame returned by pd.read_csv(path, keep_default_na=False) is the
\* sequence of its rows; its columns are the fields of its rows.  A cell of
\* Start, End or NGS_read_count is the text of the field as the parser
\* classifies it: an integer, True/False, or any other text (the empty
\* text for an empty field).  A cell of the reference column is its text.
IntCell(n) == [kind |-> "int", val |-> n]

BoolCell(b) == [kind |-> "bool", val |-> b]

StrCell(t) == [kind |-> "str", val |-> t]

\* a row of the raw valid table, whose reference column is named Segment
RawValid(seg, start, end, count) ==
    [Segment |-> seg, Start |-> start, End |-> end, NGS_read_count |-> count]

\* a normalisation that returned the frame df
Frame(df) == [err |-> "none", df |-> df]

\* a normalisation that raised e
Failed(e) == [err |-> e, df |-> <<>>]

Column(df, col) == [i \in DOMAIN df |-> df[i][col]]

CellKinds(column) == {column[i].kind : i \in DOMAIN column}

\* the cell is text that does not parse as a number: to_numeric raises
\* ValueError ("Unable to parse string"); in a column of mixed cells True
\* and False are such text
Unparsable(cell) ==
    cell.kind = "bool" \/ (cell.kind = "str" /\ cell.val # <<>>)

\* pd.to_numeric(column, errors="raise").astype(int), on the column as
\* read_csv typed it: a column of integers is int64 and stays as it is; a
\* column of only True/False is bool, which to_numeric passes and astype
\* turns into one/zero; any other column holds str, where to_numeric raises
\* ValueError for text that is no number and makes NaN of the empty text,
\* which astype(int) refuses
ToInt(column, one, zero) ==
    IF CellKinds(column) \subseteq {"int"}
    THEN [err |-> "none", val |-> [i \in DOMAIN column |-> column[i].val]]
    ELSE IF CellKinds(column) = {"bool"}
    THEN [err |-> "none",
          val |-> [i \in DOMAIN column |-> IF column[i].val THEN one ELSE zero]]
    ELSE IF \E i \in DOMAIN column : Unparsable(column[i])
    THEN [err |-> "ValueError", val |-> <<>>]
    ELSE [err |-> "IntCastingNaNError", val |-> <<>>]

\* lines 47-53 once the three conversions are evaluated, in their order
NormalizedFrame(df, start, end, count) ==
    IF start.err # "none" THEN Failed(start.err)
    ELSE IF end.err # "none" THEN Failed(end.err)
    ELSE IF count.err # "none" THEN Failed(count.err)
    ELSE Frame([i \in DOMAIN df |->
                   Row(Strip(df[i].Reference), start.val[i], end.val[i],
                       count.val[i])])

_normalize_types(df) ==
    NormalizedFrame(df,
                    ToInt(Column(df, "Start"), 1, 0),
                    ToInt(Column(df, "End"), 1, 0),
                    ToInt(Column(df, "NGS_read_count"), I64(1), Zero64))

RequiredColumns == {"Reference", "Start", "End", "NGS_read_count"}

\* df[KEY_COLUMNS + ["NGS_read_count"]].copy(): KeyError if a column is
\* missing, else the four columns
SelectColumns(df) ==
    IF \E i \in DOMAIN df : ~(RequiredColumns \subseteq DOMAIN df[i])
    THEN Failed("KeyError")
    ELSE Frame([i \in DOMAIN df |-> [c \in RequiredColumns |-> df[i][c]]])

\* df.rename(columns={"Segment": "Reference"})
RenameSegment(row) ==
    IF "Segment" \in DOMAIN row
    THEN [c \in (DOMAIN row \ {"Segment"}) \cup {"Reference"} |->
             IF c = "Reference" THEN row["Segment"] ELSE row[c]]
    ELSE row

\* the selection having been evaluated
NormalizeSelected(sel) ==
    IF sel.err # "none" THEN sel ELSE _normalize_types(sel.df)

\* rename Segment to Reference, keep the four columns
_normalize_valid(df) ==
    NormalizeSelected(SelectColumns([i \in DOMAIN df |-> RenameSegment(df[i])]))

_normalize_own(df) == NormalizeSelected(SelectColumns(df))

\* pd.concat(frames, ignore_index=True)
RECURSIVE Concat(_)
Concat(frames) ==
    IF frames = <<>> THEN <<>> ELSE Head(frames) \o Concat(Tail(frames))

\* lines 69-72: the list comprehension normalises the frames in order; the
\* first exception leaves it
RECURSIVE NormalizeOwnFrames(_)
NormalizeOwnFrames(frames) ==
    IF frames = <<>> THEN Frame(<<>>)
    ELSE IF _normalize_own(Head(frames)).err # "none"
         THEN _normalize_own(Head(frames))
         ELSE IF NormalizeOwnFrames(Tail(frames)).err # "none"
              THEN NormalizeOwnFrames(Tail(frames))
              ELSE Frame(<<_normalize_own(Head(frames)).df>>
                         \o NormalizeOwnFrames(Tail(frames)).df)

----------------------------------------------------------------------------
(* Reconciliation                                                          *)

RowsWithKey(df, k) == {i \in DOMAIN df : Key(df[i]) = k}

RECURSIVE Repeat(_, _)
Repeat(x, n) == IF n = 0 THEN <<>> ELSE <<x>> \o Repeat(x, n - 1)

RECURSIVE IndicatorRows(_, _, _, _)
IndicatorRows(left, right, ks, how) ==
    IF ks = <<>> THEN <<>>
    ELSE LET k == Head(ks)
             nl == Cardinality(RowsWithKey(left, k))
             nr == Cardinality(RowsWithKey(right, k))
             here ==
                 IF nl > 0 /\ nr > 0
                 THEN Repeat([key |-> k, _merge |-> "both"], nl * nr)
                 ELSE IF nl > 0
                 THEN Repeat([key |-> k, _merge |-> "left_only"], nl)
                 ELSE IF how = "outer"
                 THEN Repeat([key |-> k, _merge |-> "right_only"], nr)
                 ELSE <<>>
         IN  here \o IndicatorRows(left, right, Tail(ks), how)

\* how="left" in place of how="outer": keys only in the right frame are lost
MergeLeftIndicator(left, right) ==
    IndicatorRows(left, right, SortKeys(Keys(left)), "left")

\* left[KEY_COLUMNS].merge(right[KEY_COLUMNS], on=KEY_COLUMNS, how="outer",
\* indicator=True): the union of the keys in ascending order, each marked
\* with the side(s) it comes from
MergeOuterIndicator(left, right) ==
    IndicatorRows(left, right, SortKeys(Keys(left) \cup Keys(right)), "outer")

RECURSIVE KeysMarked(_, _)
KeysMarked(key_only, mark) ==
    IF key_only = <<>> THEN <<>>
    ELSE IF Head(key_only)._merge = mark
         THEN <<Head(key_only).key>> \o KeysMarked(Tail(key_only), mark)
         ELSE KeysMarked(Tail(key_only), mark)

\* the rows marked "both" selected along with those marked "left_only"
MissingInOwn_with_common(valid, own) ==
    KeysMarked(MergeOuterIndicator(valid, own), "left_only")
        \o KeysMarked(MergeOuterIndicator(valid, own), "both")

\* key_only[key_only["_merge"] == "left_only"][KEY_COLUMNS]
MissingInOwn(valid, own) ==
    KeysMarked(MergeOuterIndicator(valid, own), "left_only")

\* the rows marked "both" selected in place of those marked "right_only"
ExtraInOwn_both(valid, own) ==
    KeysMarked(MergeOuterIndicator(valid, own), "both")

\* key_only[key_only["_merge"] == "right_only"][KEY_COLUMNS]
ExtraInOwn(valid, own) ==
    KeysMarked(MergeOuterIndicator(valid, own), "right_only")

RECURSIVE MatchesOf(_, _)
MatchesOf(lrow, right) ==
    IF right = <<>> THEN <<>>
    ELSE IF Key(Head(right)) = Key(lrow)
         THEN <<[Reference |-> lrow.Reference, Start |-> lrow.Start,
                 End |-> lrow.End,
                 NGS_read_count_valid |-> lrow.NGS_read_count,
                 NGS_read_count_own |-> Head(right).NGS_read_count]>>
              \o MatchesOf(lrow, Tail(right))
         ELSE MatchesOf(lrow, Tail(right))

\* valid_df.merge(own_df, on=KEY_COLUMNS, how="inner",
\* suffixes=("_valid", "_own")): the matching pairs in the order of the left
\* frame
RECURSIVE MergeCounts(_, _)
MergeCounts(left, right) ==
    IF left = <<>> THEN <<>>
    ELSE MatchesOf(Head(left), right) \o MergeCounts(Tail(left), right)

CountsDiffer(row) == row.NGS_read_count_valid # row.NGS_read_count_own

CountsEqual(row) == row.NGS_read_count_valid = row.NGS_read_count_own

\* == in place of != in the filter
CountMismatch_equal(valid, own) == SelectSeq(MergeCounts(valid, own), CountsEqual)

\* merged_counts[merged_counts["NGS_read_count_valid"]
\*               != merged_counts["NGS_read_count_own"]]
CountMismatch(valid, own) == SelectSeq(MergeCounts(valid, own), CountsDiffer)

\* frame.merge(keys, on=KEY_COLUMNS, how="inner"): the rows of frame whose
\* key is among keys, in the order of frame
RECURSIVE RowsOfKeys(_, _)
RowsOfKeys(frame, keys) ==
    IF frame = <<>> THEN <<>>
    ELSE Repeat(Head(frame),
                Cardinality({i \in DOMAIN keys : keys[i] = Key(Head(frame))}))
         \o RowsOfKeys(Tail(frame), keys)

\* the value returned when the count mismatches are not looked at
ReturnCode_keys_only(missing, extra, mismatch) ==
    IF missing = <<>> /\ extra = <<>> THEN 0 ELSE 1

\* lines 92-94 and 112
ReturnCode(missing, extra, mismatch) ==
    IF missing = <<>> /\ extra = <<>> /\ mismatch = <<>> THEN 0 ELSE 1

\* lines 93-110: what is printed
Printed(valid, own, missing, extra, mismatch) ==
    IF missing = <<>> /\ extra = <<>> /\ mismatch = <<>>
    THEN <<[title |-> "OK", rows |-> <<>>]>>
    ELSE (IF missing # <<>>
          THEN <<[title |-> "Fehlend", rows |-> RowsOfKeys(valid, missing)]>>
          ELSE <<>>)
         \o (IF extra # <<>>
             THEN <<[title |-> "Zusaetzlich", rows |-> RowsOfKeys(own, extra)]>>
             ELSE <<>>)
         \o (IF mismatch # <<>>
             THEN <<[title |-> "Unterschiede", rows |-> mismatch]>>
             ELSE <<>>)

----------------------------------------------------------------------------
(* Floating point                                                          *)
(* A float is <<m, e>> with value m * 2^e; zero is <<0, 0>>, any other     *)
(* float has 2^(Precision-1) <= |m| < 2^Precision, so that equal values    *)
(* are equal tuples; below 2^(Precision-1-MinExponent) the exponent stays  *)
(* at -MinExponent and the significand gets shorter (gradual underflow),   *)
(* down to 0.  No magnitude used here reaches the overflow threshold.      *)

Abs(n) == IF n < 0 THEN -n ELSE n

Sign(n) == IF n < 0 THEN -1 ELSE IF n > 0 THEN 1 ELSE 0

RECURSIVE BitLen(_)
BitLen(a) == IF a = 0 THEN 0 ELSE 1 + BitLen(a \div 2)

RECURSIVE ISqrtFrom(_, _)
ISqrtFrom(n, x) ==
    LET y == (x + n \div x) \div 2
    IN  IF y >= x THEN x ELSE ISqrtFrom(n, y)

\* floor of the square root of the natural number n
ISqrt(n) == IF n = 0 THEN 0 ELSE ISqrtFrom(n, n)

FZero == <<0, 0>>

\* the significand q (already Precision bits or one more after a carry)
RoundCarry(sgn, q, e) ==
    IF q = 2^Precision THEN <<sgn * 2^(Precision - 1), e + 1>>
    ELSE <<sgn * q, e>>

\* round to nearest, ties to even: q is the kept part, rem the dropped part,
\* half the weight of half a unit in the last place
RoundShift(sgn, q, rem, half, e) ==
    RoundCarry(sgn,
               IF rem > half \/ (rem = half /\ q % 2 = 1) THEN q + 1 ELSE q,
               e)

\* zero has one representation
Canonical(x) == IF x[1] = 0 THEN FZero ELSE x

\* a * 2^e is below the least normal float: it is rounded to a multiple of
\* 2^(-MinExponent), to zero when it is below half of that
RoundSubnormal(sgn, a, len, e) ==
    IF e >= -MinExponent THEN <<sgn * a * 2^(e + MinExponent), -MinExponent>>
    ELSE IF -MinExponent - e > len THEN FZero
    ELSE Canonical(RoundShift(sgn, a \div 2^(-MinExponent - e),
                              a % 2^(-MinExponent - e),
                              2^(-MinExponent - e - 1), -MinExponent))

\* a has len bits
RoundBits(sgn, a, len, e) ==
    IF e + len - Precision < -MinExponent THEN RoundSubnormal(sgn, a, len, e)
    ELSE IF len <= Precision
    THEN <<sgn * a * 2^(Precision - len), e - (Precision - len)>>
    ELSE RoundShift(sgn, a \div 2^(len - Precision), a % 2^(len - Precision),
                    2^(len - Precision - 1), e + (len - Precision))

\* the float nearest to n * 2^e, ties to even
FRound(n, e) ==
    IF n = 0 THEN FZero ELSE RoundBits(Sign(n), Abs(n), BitLen(Abs(n)), e)

\* float(n) for an int n
FromInt(n) == FRound(n, 0)

FNeg(a) == <<-a[1], a[2]>>

FAbs(a) == <<Abs(a[1]), a[2]>>

FMul(a, b) == FRound(a[1] * b[1], a[2] + b[2])

\* hi has the larger exponent, by d
AddAligned(hi, lo, d) ==
    IF d > Precision + 2 THEN hi ELSE FRound(hi[1] * 2^d + lo[1], lo[2])

\* a + b: exact sum of the aligned significands, rounded once; an operand
\* below a quarter of the last place of the other does not change it
FAdd(a, b) ==
    IF a[1] = 0 THEN b
    ELSE IF b[1] = 0 THEN a
    ELSE IF a[2] >= b[2] THEN AddAligned(a, b, a[2] - b[2])
    ELSE AddAligned(b, a, b[2] - a[2])

FSub(a, b) == FAdd(a, FNeg(b))

\* the significand of a non-zero a brought to Precision bits, for the
\* operations that compute their digits from it
Scaled(m, shift) == m * 2^shift

Normal(a) ==
    <<Scaled(a[1], Precision - BitLen(Abs(a[1]))),
      a[2] - (Precision - BitLen(Abs(a[1])))>>

\* num / den of naturals as a quotient with a sticky bit
StickyQuotient(num, den) ==
    2 * (num \div den) + (IF num % den = 0 THEN 0 ELSE 1)

\* a / b for normal a and b
DivNormal(a, b) ==
    FRound(Sign(a[1]) * Sign(b[1])
               * StickyQuotient(Abs(a[1]) * 2^(Precision + 2), Abs(b[1])),
           a[2] - b[2] - (Precision + 2) - 1)

\* a / b for b # 0: quotient with Precision + 2 bits or more and a sticky
\* bit, rounded once
FDiv(a, b) ==
    IF a[1] = 0 THEN FZero ELSE DivNormal(Normal(a), Normal(b))

\* the root s of n with a sticky bit
StickyRoot(n, s) == 2 * s + (IF s * s = n THEN 0 ELSE 1)

\* sqrt of m * 2^e where e - k is even
SqrtShifted(m, e, k) ==
    FRound(StickyRoot(m * 2^k, ISqrt(m * 2^k)), (e - k) \div 2 - 1)

\* sqrt of a normal a
SqrtNormal(a) ==
    IF (a[2] - (Precision + 3)) % 2 = 0
    THEN SqrtShifted(a[1], a[2], Precision + 3)
    ELSE SqrtShifted(a[1], a[2], Precision + 4)

\* math.sqrt(a) for a >= 0
FSqrt(a) == IF a[1] = 0 THEN FZero ELSE SqrtNormal(Normal(a))

FLt(a, b) == FSub(a, b)[1] < 0

FLe(a, b) == FSub(a, b)[1] <= 0

\* Python's min(a, b): b if b < a, else a
FMin(a, b) == IF FLt(b, a) THEN b ELSE a

\* Python's max(a, b): b if b > a, else a
FMax(a, b) == IF FLt(a, b) THEN b ELSE a

FOne == FromInt(1)

FTwo == FromInt(2)

FHalf == FRound(1, -1)

\* math.pi
Pi == FRound(3294199, -20)

\* the result of a float computation that may raise
Ok(x) == [err |-> "none", val |-> x]

Raise(e) == [err |-> e, val |-> FZero]

\* math.acos(x): "math domain error" outside [-1, 1]; inside, the polynomial
\* approximation sqrt(1 - |x|) * (c0 + c1 |x| + c2 |x|^2 + c3 |x|^3), and
\* acos(-x) = pi - acos(x)
AcosC0 == FRound(1647029, -20)
AcosC1 == FRound(-222418, -20)
AcosC2 == FRound(77868, -20)
AcosC3 == FRound(-19639, -20)

AcosPoly(ax) ==
    FAdd(AcosC0, FMul(ax, FAdd(AcosC1, FMul(ax, FAdd(AcosC2, FMul(ax, AcosC3))))))

\* v is acos(|x|)
AcosSigned(x, v) == IF x[1] >= 0 THEN v ELSE FSub(Pi, v)

Acos(x) ==
    IF FLt(FOne, x) \/ FLt(x, FNeg(FOne)) THEN Raise("ValueError")
    ELSE Ok(AcosSigned(x, FMul(FSqrt(FSub(FOne, FAbs(x))), AcosPoly(FAbs(x)))))

\* math.acos(num / den)
AcosOfQuotient(num, den) ==
    IF den[1] = 0 THEN Raise("ZeroDivisionError")
    ELSE Acos(FDiv(num, den))

----------------------------------------------------------------------------
(* The proportional-area solver                                            *)

Iterations == 60

\* lines 124-138, the two angles being evaluated first
Overlap(r1_sq, r2_sq, angle1, angle2, product) ==
    IF angle1.err # "none" THEN angle1
    ELSE IF angle2.err # "none" THEN angle2
    ELSE Ok(FSub(FAdd(FMul(r1_sq, angle1.val), FMul(r2_sq, angle2.val)),
                 FMul(FHalf, FSqrt(FMax(FZero, product)))))

\* lines 120-138
Lens(r1_, r2_, distance_, r1_sq, r2_sq, d_sq) ==
    Overlap(r1_sq, r2_sq,
            AcosOfQuotient(FSub(FAdd(d_sq, r1_sq), r2_sq),
                           FMul(FMul(FTwo, distance_), r1_)),
            AcosOfQuotient(FSub(FAdd(d_sq, r2_sq), r1_sq),
                           FMul(FMul(FTwo, distance_), r2_)),
            FMul(FMul(FMul(FAdd(FAdd(FNeg(distance_), r1_), r2_),
                           FSub(FAdd(distance_, r1_), r2_)),
                      FAdd(FSub(distance_, r1_), r2_)),
                 FAdd(FAdd(distance_, r1_), r2_)))

\* math.pi * min(r1, r2) ** 2
SmallerCircleArea(m) == FMul(Pi, FMul(m, m))

_circle_intersection_area(r1_, r2_, distance_) ==
    IF FLe(FAdd(r1_, r2_), distance_) THEN Ok(FZero)
    ELSE IF FLe(distance_, FAbs(FSub(r1_, r2_)))
    THEN Ok(SmallerCircleArea(FMin(r1_, r2_)))
    ELSE Lens(r1_, r2_, distance_, FMul(r1_, r1_), FMul(r2_, r2_),
              FMul(distance_, distance_))

\* max_area = math.pi * min(r1, r2) ** 2
MaxArea(r1_, r2_) == SmallerCircleArea(FMin(r1_, r2_))

\* target = min(max(target_area, 0.0), max_area)
ClampTarget(r1_, r2_, target_area_) ==
    FMin(FMax(target_area_, FZero), MaxArea(r1_, r2_))

\* lines 153-156, or the exception raised by _circle_intersection_area
BisectUpdate(target_, low_, high_, mid, area) ==
    IF area.err # "none" THEN [err |-> area.err, low |-> low_, high |-> high_]
    ELSE IF FLt(target_, area.val)
         THEN [err |-> "none", low |-> mid, high |-> high_]
         ELSE [err |-> "none", low |-> low_, high |-> mid]

\* (low + high) / 2.0
Midpoint(low_, high_) == FDiv(FAdd(low_, high_), FTwo)

\* one pass through the body of the for loop: the new low and high, or the
\* exception
BisectStep(r1_, r2_, target_, low_, high_) ==
    BisectUpdate(target_, low_, high_, Midpoint(low_, high_),
                 _circle_intersection_area(r1_, r2_, Midpoint(low_, high_)))

\* an empty set given the radius of a set of one key
Radius_at_least_one(total) ==
    IF total > 0 THEN FSqrt(FDiv(FromInt(total), Pi))
    ELSE FSqrt(FDiv(FromInt(1), Pi))

\* r = math.sqrt(total / math.pi) if total > 0 else 0.0
Radius(total) ==
    IF total > 0 THEN FSqrt(FDiv(FromInt(total), Pi)) ELSE FZero

\* both counted as the size of the union of the two key sets
VennCounts_union(valid_set, own_set) ==
    [only_valid |-> Cardinality(valid_set \ own_set),
     only_own |-> Cardinality(own_set \ valid_set),
     both |-> Cardinality(valid_set \cup own_set)]

\* lines 161-163
VennCounts(valid_set, own_set) ==
    [only_valid |-> Cardinality(valid_set \ own_set),
     only_own |-> Cardinality(own_set \ valid_set),
     both |-> Cardinality(valid_set \cap own_set)]

----------------------------------------------------------------------------
(* The figure drawn by _plot_venn                                          *)

\* the float literals 0.2, 1.15 and 0.25
F0_2 == FRound(209715, -20)

F1_15 == FRound(1205862, -20)

FQuarter == FRound(1, -2)

\* str(n) for an int n >= 0: its decimal digits
RECURSIVE Str(_)
Str(n) == IF n < 10 THEN <<48 + n>> ELSE Str(n \div 10) \o <<48 + (n % 10)>>

\* the figure before anything is drawn
NoFigure ==
    [patches |-> <<>>, texts |-> <<>>,
     limits |-> [x_min |-> FZero, x_max |-> FZero,
                 y_min |-> FZero, y_max |-> FZero]]

\* lines 170-171 and 177-184: a circle is added only for a positive radius
Patches(r1_, r2_, distance_) ==
    (IF r1_[1] > 0
     THEN <<[center |-> <<FZero, FZero>>, radius |-> r1_, color |-> "#4C78A8"]>>
     ELSE <<>>)
    \o (IF r2_[1] > 0
        THEN <<[center |-> <<distance_, FZero>>, radius |-> r2_,
                color |-> "#F58518"]>>
        ELSE <<>>)

\* a count label centred on r * 0.5, with 0.2 in place of it for a zero
\* radius
LabelOffset_half_radius(r) == FMul(r, FHalf)

\* (r * 0.5 if r > 0 else 0.2)
LabelOffset(r) == IF r[1] > 0 THEN FMul(r, FHalf) ELSE F0_2

\* ax.text(x, y, s, ...)
Text(x, y, s) == [x |-> x, y |-> y, s |-> s]

\* lines 186-192: left_x, right_x, overlap_x and the three count labels
CountLabels(r1_, r2_, distance_, only_valid_, only_own_, both_) ==
    <<Text(FSub(FZero, LabelOffset(r1_)), FZero, Str(only_valid_)),
      Text(FAdd(distance_, LabelOffset(r2_)), FZero, Str(only_own_)),
      Text(FDiv(FAdd(FZero, distance_), FTwo), FZero, Str(both_))>>

\* label_y = -max_r * 1.15 if max_r > 0 else -0.5
LabelY(max_r) == IF max_r[1] > 0 THEN FMul(FNeg(max_r), F1_15) ELSE FNeg(FHalf)

\* lines 196-211
NameLabels(distance_, label_y) ==
    <<Text(FZero, label_y, "Jens"), Text(distance_, label_y, "Own")>>

\* padding = max_r * 0.25 if max_r > 0 else 0.5
Padding(max_r) == IF max_r[1] > 0 THEN FMul(max_r, FQuarter) ELSE FHalf

\* lines 214-219
Limits(r1_, r2_, distance_, max_r, padding) ==
    [x_min |-> FSub(FMin(FSub(FZero, r1_), FSub(distance_, r2_)), padding),
     x_max |-> FAdd(FMax(FAdd(FZero, r1_), FAdd(distance_, r2_)), padding),
     y_min |-> FSub(FNeg(max_r), padding),
     y_max |-> FAdd(max_r, padding)]

\* lines 170-219: everything _plot_venn puts on the axes
Figure(r1_, r2_, distance_, only_valid_, only_own_, both_) ==
    [patches |-> Patches(r1_, r2_, distance_),
     texts |-> CountLabels(r1_, r2_, distance_, only_valid_, only_own_, both_)
               \o NameLabels(distance_, LabelY(FMax(r1_, r2_))),
     limits |-> Limits(r1_, r2_, distance_, FMax(r1_, r2_),
                       Padding(FMax(r1_, r2_)))]

----------------------------------------------------------------------------
(* Stand-alone calls of _aggregate                                         *)

\* keys that differ in one column at a time, in letter case, and in the
\* numeric against the textual order of Start and End (2 < 10, "10" < "2")
AggKeys ==
    {<<chr1, 2, 5>>, <<chr1, 2, 20>>, <<chr1, 10, 5>>,
     <<chr2, 2, 5>>, <<Chr1, 10, 20>>, <<chr2, 10, 5>>}

AggCounts == {I64(3), I64(4), Pow62}

AggRowSet == {Row(k[1], k[2], k[3], c) : k \in AggKeys, c \in AggCounts}

SeqsUpTo(S, n) == UNION {[1..k -> S] : k \in 0..n}

aggVars == <<arg, result>>

solveVars ==
    <<only_valid, only_own, both, r1, r2, target_area, target, low, high,
      iter, distance, raised>>

cmpVars ==
    <<valid_raw, own_raw, valid_df, own_df, missing_in_own, extra_in_own,
      count_mismatch, figure, venn_file, stdout, ret>>

vars == <<pc, aggVars, solveVars, cmpVars>>

CompareIdle ==
    /\ valid_raw = <<>> /\ own_raw = <<>>
    /\ valid_df = <<>> /\ own_df = <<>>
    /\ missing_in_own = <<>> /\ extra_in_own = <<>>
    /\ count_mismatch = <<>>
    /\ figure = NoFigure
    /\ venn_file = 0
    /\ stdout = <<>>
    /\ ret = -1

SolveIdle ==
    /\ only_valid = 0 /\ only_own = 0 /\ both = 0
    /\ r1 = FZero /\ r2 = FZero
    /\ target_area = FZero /\ target = FZero
    /\ low = FZero /\ high = FZero
    /\ iter = 0
    /\ distance = FZero
    /\ raised = "none"

InitAgg ==
    /\ pc = "aggregate"
    /\ arg \in SeqsUpTo(AggRowSet, MaxRows)
    /\ result = <<>>
    /\ SolveIdle
    /\ CompareIdle

CallAggregate ==
    /\ pc = "aggregate"
    /\ result' = _aggregate(arg)
    /\ pc' = "aggregated"
    /\ UNCHANGED <<arg, solveVars, cmpVars>>

NextAgg == CallAggregate

SpecAgg == InitAgg /\ [][NextAgg]_vars

----------------------------------------------------------------------------
(* Stand-alone calls of _circle_intersection_area                          *)

\* radii and distances: zero, three values near 1e-181 in the ratio
\* 1 : 3 : 2.5, radii of key sets, and small integers
AreaArgs ==
    {FZero, FRound(1, -600), FRound(3, -600), FRound(5, -601),
     Radius(1), Radius(4), FOne, FTwo}

InitArea ==
    /\ pc = "area"
    /\ arg \in {<<a, b, d>> : a \in AreaArgs, b \in AreaArgs, d \in AreaArgs}
    /\ result = <<>>
    /\ SolveIdle
    /\ CompareIdle

\* result is the value returned, or the exception
CallArea ==
    /\ pc = "area"
    /\ result' = _circle_intersection_area(arg[1], arg[2], arg[3])
    /\ pc' = "area_returned"
    /\ UNCHANGED <<arg, solveVars, cmpVars>>

NextArea == CallArea

SpecArea == InitArea /\ [][NextArea]_vars

----------------------------------------------------------------------------
(* Stand-alone calls of _solve_circle_distance, one loop iteration a step  *)

\* target areas of direct calls: below 0, between, and above any max_area
DirectTargets == {FNeg(FOne), FHalf, FromInt(100)}

InitSolve ==
    /\ pc = "solve"
    /\ arg = <<>> /\ result = <<>>
    /\ only_valid \in 0..MaxCount
    /\ only_own \in 0..MaxCount
    /\ both \in 0..MaxCount
    /\ r1 = Radius(only_valid + both)
    /\ r2 = Radius(only_own + both)
    /\ target_area \in {FromInt(both)} \cup DirectTargets
    /\ target = FZero
    /\ low = FZero /\ high = FZero
    /\ iter = 0
    /\ distance = FZero
    /\ raised = "none"
    /\ CompareIdle

\* the two boundary returns exchanged: |r1 - r2| for a zero target, r1 + r2
\* for a full one
SolveEnter_swapped_returns ==
    /\ pc = "solve"
    /\ target' = ClampTarget(r1, r2, target_area)
    /\ IF target' = FZero
       THEN /\ distance' = FAbs(FSub(r1, r2))
            /\ pc' = "solved"
            /\ UNCHANGED <<low, high>>
       ELSE IF target' = MaxArea(r1, r2)
       THEN /\ distance' = FAdd(r1, r2)
            /\ pc' = "solved"
            /\ UNCHANGED <<low, high>>
       ELSE /\ low' = FAbs(FSub(r1, r2))
            /\ high' = FAdd(r1, r2)
            /\ pc' = "bisect"
            /\ UNCHANGED distance
    /\ UNCHANGED <<aggVars, cmpVars, only_valid, only_own, both, r1, r2, target_area,
                   iter, raised>>

\* the two boundary tests made on target_area, before it is clamped
SolveEnter_compare_unclamped ==
    /\ pc = "solve"
    /\ target' = ClampTarget(r1, r2, target_area)
    /\ IF target_area = FZero
       THEN /\ distance' = FAdd(r1, r2)
            /\ pc' = "solved"
            /\ UNCHANGED <<low, high>>
       ELSE IF target_area = MaxArea(r1, r2)
       THEN /\ distance' = FAbs(FSub(r1, r2))
            /\ pc' = "solved"
            /\ UNCHANGED <<low, high>>
       ELSE /\ low' = FAbs(FSub(r1, r2))
            /\ high' = FAdd(r1, r2)
            /\ pc' = "bisect"
            /\ UNCHANGED distance
    /\ UNCHANGED <<aggVars, cmpVars, only_valid, only_own, both, r1, r2, target_area,
                   iter, raised>>

\* lines 142-149: clamp, the two boundary returns, the initial interval
SolveEnter ==
    /\ pc = "solve"
    /\ target' = ClampTarget(r1, r2, target_area)
    /\ IF target' = FZero
       THEN /\ distance' = FAdd(r1, r2)
            /\ pc' = "solved"
            /\ UNCHANGED <<low, high>>
       ELSE IF target' = MaxArea(r1, r2)
       THEN /\ distance' = FAbs(FSub(r1, r2))
            /\ pc' = "solved"
            /\ UNCHANGED <<low, high>>
       ELSE /\ low' = FAbs(FSub(r1, r2))
            /\ high' = FAdd(r1, r2)
            /\ pc' = "bisect"
            /\ UNCHANGED distance
    /\ UNCHANGED <<aggVars, cmpVars, only_valid, only_own, both, r1, r2, target_area,
                   iter, raised>>

\* the effect of one iteration whose body yields st
IterateWith(st) ==
    IF st.err # "none"
    THEN /\ raised' = st.err
         /\ pc' = "raised"
         /\ UNCHANGED <<low, high, iter>>
    ELSE /\ low' = st.low
         /\ high' = st.high
         /\ iter' = iter + 1
         /\ UNCHANGED <<pc, raised>>

\* lines 150-156: one iteration of the loop
SolveIterate ==
    /\ pc = "bisect"
    /\ iter < Iterations
    /\ IterateWith(BisectStep(r1, r2, target, low, high))
    /\ UNCHANGED <<aggVars, cmpVars, only_valid, only_own, both, r1, r2,
                   target_area, target, distance>>

\* line 157: the loop is exhausted, return the midpoint
SolveReturn ==
    /\ pc = "bisect"
    /\ iter = Iterations
    /\ distance' = Midpoint(low, high)
    /\ pc' = "solved"
    /\ UNCHANGED <<aggVars, cmpVars, only_valid, only_own, both, r1, r2, target_area,
                   target, low, high, iter, raised>>

_solve_circle_distance == SolveEnter \/ SolveIterate \/ SolveReturn

NextSolve == SolveEnter \/ SolveIterate \/ SolveReturn

SpecSolve == InitSolve /\ [][NextSolve]_vars

----------------------------------------------------------------------------
(* compare_results                                                         *)

sp_chr1_sp == <<32>> \o chr1 \o <<32>>      \* " chr1 "

\* cells of the raw tables: two keys with two different counts each, one of
\* them also written with surrounding blanks
RawCells ==
    {<<chr1, 100, 200, I64(10)>>, <<sp_chr1_sp, 100, 200, I64(7)>>,
     <<chr2, 1, 2, I64(1)>>, <<chr2, 1, 2, I64(5)>>}

RawValidRows ==
    {RawValid(c[1], IntCell(c[2]), IntCell(c[3]), IntCell(c[4])) : c \in RawCells}

RawOwnRows ==
    {Row(c[1], IntCell(c[2]), IntCell(c[3]), IntCell(c[4])) : c \in RawCells}

Init ==
    /\ pc = "load"
    /\ arg = <<>> /\ result = <<>>
    /\ SolveIdle
    /\ valid_raw \in SeqsUpTo(RawValidRows, MaxValidRows)
    /\ own_raw \in {<<f>> : f \in SeqsUpTo(RawOwnRows, MaxOwnRows)}
    /\ valid_df = <<>> /\ own_df = <<>>
    /\ missing_in_own = <<>> /\ extra_in_own = <<>>
    /\ count_mismatch = <<>>
    /\ figure = NoFigure
    /\ venn_file = 0
    /\ stdout = <<>>
    /\ ret = -1

\* the effect of lines 66-73, the normalisations yielding valid and own:
\* an exception of the first leaves compare_results before the second is
\* evaluated, and no table is bound
LoadWith(valid, own) ==
    IF valid.err # "none"
    THEN /\ raised' = valid.err
         /\ pc' = "load_raised"
         /\ UNCHANGED <<valid_df, own_df>>
    ELSE IF own.err # "none"
    THEN /\ raised' = own.err
         /\ pc' = "load_raised"
         /\ UNCHANGED <<valid_df, own_df>>
    ELSE /\ valid_df' = _aggregate(valid.df)
         /\ own_df' = _aggregate(Concat(own.df))
         /\ pc' = "merge"
         /\ UNCHANGED raised

\* lines 66-73
LoadAndAggregate ==
    /\ pc = "load"
    /\ LoadWith(_normalize_valid(valid_raw), NormalizeOwnFrames(own_raw))
    /\ UNCHANGED <<aggVars, only_valid, only_own, both, r1, r2, target_area,
                   target, low, high, iter, distance, valid_raw, own_raw,
                   missing_in_own, extra_in_own, count_mismatch, figure,
                   venn_file, stdout, ret>>

\* lines 75-86
Reconcile ==
    /\ pc = "merge"
    /\ missing_in_own' = MissingInOwn(valid_df, own_df)
    /\ extra_in_own' = ExtraInOwn(valid_df, own_df)
    /\ count_mismatch' = CountMismatch(valid_df, own_df)
    /\ pc' = "plot"
    /\ UNCHANGED <<aggVars, solveVars, valid_raw, own_raw, valid_df, own_df,
                   figure, venn_file, stdout, ret>>

\* lines 88-90 and 161-169: the two key sets, the three counts, the two
\* radii, and the call of _solve_circle_distance(r1, r2, both)
PlotVennEnter ==
    /\ pc = "plot"
    /\ LET counts == VennCounts(Keys(valid_df), Keys(own_df))
       IN  /\ only_valid' = counts.only_valid
           /\ only_own' = counts.only_own
           /\ both' = counts.both
           /\ r1' = Radius(counts.only_valid + counts.both)
           /\ r2' = Radius(counts.only_own + counts.both)
           /\ target_area' = FromInt(counts.both)
    /\ pc' = "solve"
    /\ UNCHANGED <<aggVars, cmpVars, target, low, high, iter, distance, raised>>

\* lines 170-223: the solver has returned; draw and write the image
PlotVennSave ==
    /\ pc = "solved"
    /\ figure' = Figure(r1, r2, distance, only_valid, only_own, both)
    /\ venn_file' = venn_file + 1
    /\ pc' = "report"
    /\ UNCHANGED <<aggVars, solveVars, valid_raw, own_raw, valid_df, own_df,
                   missing_in_own, extra_in_own, count_mismatch, stdout, ret>>

\* fig.savefig raising when the exception is caught and dropped: the run
\* goes on to its report
PlotVennSaveFails_ignored ==
    /\ pc = "solved"
    /\ figure' = Figure(r1, r2, distance, only_valid, only_own, both)
    /\ venn_file' \in {venn_file, venn_file + 1}
    /\ pc' = "report"
    /\ UNCHANGED <<aggVars, solveVars, valid_raw, own_raw, valid_df, own_df,
                   missing_in_own, extra_in_own, count_mismatch, stdout, ret>>

\* lines 170-222 when fig.savefig(out_path) raises OSError (no directory
\* "output", no permission, a full disk): the figure was drawn in memory,
\* the file was not created or was left incomplete, and the exception
\* leaves _plot_venn and compare_results
PlotVennSaveFails ==
    /\ pc = "solved"
    /\ figure' = Figure(r1, r2, distance, only_valid, only_own, both)
    /\ venn_file' \in {venn_file, venn_file + 1}
    /\ raised' = "OSError"
    /\ pc' = "save_raised"
    /\ UNCHANGED <<aggVars, only_valid, only_own, both, r1, r2, target_area,
                   target, low, high, iter, distance, valid_raw, own_raw,
                   valid_df, own_df, missing_in_own, extra_in_own,
                   count_mismatch, stdout, ret>>

_plot_venn ==
    PlotVennEnter \/ _solve_circle_distance \/ PlotVennSave \/ PlotVennSaveFails

\* lines 92-112
Report ==
    /\ pc = "report"
    /\ stdout' = Printed(valid_df, own_df, missing_in_own, extra_in_own,
                         count_mismatch)
    /\ ret' = ReturnCode(missing_in_own, extra_in_own, count_mismatch)
    /\ pc' = "done"
    /\ UNCHANGED <<aggVars, solveVars, valid_raw, own_raw, valid_df, own_df,
                   missing_in_own, extra_in_own, count_mismatch, figure,
                   venn_file>>

compare_results == LoadAndAggregate \/ Reconcile \/ _plot_venn \/ Report

Next ==
    \/ LoadAndAggregate
    \/ Reconcile
    \/ PlotVennEnter
    \/ SolveEnter
    \/ SolveIterate
    \/ SolveReturn
    \/ PlotVennSave
    \/ PlotVennSaveFails
    \/ Report

Spec == Init /\ [][Next]_vars

----------------------------------------------------------------------------
(* compare_results on tables of many keys                                  *)

\* raw tables of one row per key, whose keys are (chr1, n, n + 1) for n from
\* first to last; the count is 1, but 2 in the own table when n is odd
ValidKeyTable(first, last) ==
    [i \in 1..(last - first + 1) |->
        RawValid(chr1, IntCell(first + i - 1), IntCell(first + i), IntCell(I64(1)))]

OwnKeyTable(first, last) ==
    [i \in 1..(last - first + 1) |->
        Row(chr1, IntCell(first + i - 1), IntCell(first + i),
            IntCell(I64(1 + ((first + i - 1) % 2))))]

\* a keys only in the valid table, c in both, b only in the own table
InitKeys ==
    /\ pc = "load"
    /\ arg = <<>> /\ result = <<>>
    /\ SolveIdle
    /\ \E a \in 0..MaxCount, b \in 0..MaxCount, c \in 0..MaxCount :
          /\ valid_raw = ValidKeyTable(1, a + c)
          /\ own_raw = <<OwnKeyTable(a + 1, a + c + b)>>
    /\ valid_df = <<>> /\ own_df = <<>>
    /\ missing_in_own = <<>> /\ extra_in_own = <<>>
    /\ count_mismatch = <<>>
    /\ figure = NoFigure
    /\ venn_file = 0
    /\ stdout = <<>>
    /\ ret = -1

SpecKeys == InitKeys /\ [][Next]_vars

----------------------------------------------------------------------------
(* compare_results on input files that may be malformed                    *)

xyz == <<120, 121, 122>>      \* "xyz"

\* well-formed rows: one key written plainly, with surrounding blanks and
\* with a capital letter
InputCells ==
    {<<chr1, 100, 200, I64(10)>>, <<sp_chr1_sp, 100, 200, I64(7)>>,
     <<Chr1, 100, 200, I64(3)>>}

\* the fields of malformed rows, the reference column apart: text in Start,
\* True in Start, an empty NGS_read_count, no End column
MalformedFields ==
    {[Start |-> StrCell(xyz), End |-> IntCell(200),
      NGS_read_count |-> IntCell(I64(10))],
     [Start |-> BoolCell(TRUE), End |-> IntCell(200),
      NGS_read_count |-> IntCell(I64(10))],
     [Start |-> IntCell(100), End |-> IntCell(200),
      NGS_read_count |-> StrCell(<<>>)],
     [Start |-> IntCell(100), NGS_read_count |-> IntCell(I64(10))]}

\* the row f with the reference column col holding chr1
WithReference(f, col) ==
    [c \in DOMAIN f \cup {col} |-> IF c = col THEN chr1 ELSE f[c]]

\* a row without its reference column
NoReference ==
    [Start |-> IntCell(100), End |-> IntCell(200),
     NGS_read_count |-> IntCell(I64(10))]

InputValidRows ==
    {RawValid(c[1], IntCell(c[2]), IntCell(c[3]), IntCell(c[4])) : c \in InputCells}
    \cup {WithReference(f, "Segment") : f \in MalformedFields}
    \cup {NoReference}

InputOwnRows ==
    {Row(c[1], IntCell(c[2]), IntCell(c[3]), IntCell(c[4])) : c \in InputCells}
    \cup {WithReference(f, "Reference") : f \in MalformedFields}
    \cup {NoReference}

InitInput ==
    /\ pc = "load"
    /\ arg = <<>> /\ result = <<>>
    /\ SolveIdle
    /\ valid_raw \in SeqsUpTo(InputValidRows, MaxValidRows)
    /\ own_raw \in {<<f>> : f \in SeqsUpTo(InputOwnRows, MaxOwnRows)}
    /\ valid_df = <<>> /\ own_df = <<>>
    /\ missing_in_own = <<>> /\ extra_in_own = <<>>
    /\ count_mismatch = <<>>
    /\ figure = NoFigure
    /\ venn_file = 0
    /\ stdout = <<>>
    /\ ret = -1

SpecInput == InitInput /\ [][Next]_vars

----------------------------------------------------------------------------
(* Properties of _aggregate                                                *)

\* the exact (unbounded) sum of the non-negative counts of the rows with
\* key k, as five limbs
WideAdd(w, a) ==
    LET s1 == w[1] + a[1]
        s2 == w[2] + a[2] + (s1 \div LimbBase)
        s3 == w[3] + a[3] + (s2 \div LimbBase)
        s4 == w[4] + a[4] + (s3 \div LimbBase)
        s5 == w[5] + (s4 \div LimbBase)
    IN  <<s1 % LimbBase, s2 % LimbBase, s3 % LimbBase, s4 % LimbBase, s5>>

RECURSIVE ExactSum(_, _)
ExactSum(df, k) ==
    IF df = <<>> THEN <<0, 0, 0, 0, 0>>
    ELSE IF Key(Head(df)) = k
         THEN WideAdd(ExactSum(Tail(df), k), Head(df).NGS_read_count)
         ELSE ExactSum(Tail(df), k)

\* the int64 a holds exactly the non-negative number w
Holds64(a, w) ==
    /\ w[5] = 0
    /\ a[4] < LimbBase \div 2
    /\ \A i \in 1..4 : a[i] = w[i]

\* C1: the table returned by _aggregate has exactly one row per distinct key
\* of the input, no other key, and the row's NGS_read_count is the sum of the
\* NGS_read_count of all input rows with that key.
C1_AggregateSumsPerKey ==
    pc = "aggregated" =>
        /\ Keys(result) = Keys(arg)
        /\ \A k \in Keys(arg) :
              /\ Cardinality(RowsWithKey(result, k)) = 1
              /\ \A i \in RowsWithKey(result, k) :
                    Holds64(result[i].NGS_read_count, ExactSum(arg, k))

\* the same for inputs whose group sums fit into an int64 (the part of C1
\* that the code does satisfy)
C1_SumsThatFit ==
    pc = "aggregated" =>
        /\ Keys(result) = Keys(arg)
        /\ \A k \in Keys(arg) :
              /\ Cardinality(RowsWithKey(result, k)) = 1
              /\ \A i \in RowsWithKey(result, k) :
                    LET w == ExactSum(arg, k)
                    IN  (w[5] = 0 /\ w[4] < LimbBase \div 2)
                            => Holds64(result[i].NGS_read_count, w)

PermutationsOf(s) ==
    {[i \in 1..Len(s) |-> s[p[i]]] : p \in Permutations(1..Len(s))}

\* C2: _aggregate returns the identical table (rows, counts, row order) for
\* every permutation of its input rows.
C2_OrderIndependent ==
    pc = "aggregated" => \A p \in PermutationsOf(arg) : _aggregate(p) = result

\* an input that is not in key order and repeats a key was aggregated
C2_Witness ==
    /\ pc = "aggregated"
    /\ Len(arg) = 3
    /\ Key(arg[1]) = Key(arg[3])
    /\ KeyLess(Key(arg[2]), Key(arg[1]))
    /\ arg[1].NGS_read_count # arg[3].NGS_read_count

\* C3: aggregating an aggregated table returns it unchanged.
C3_Idempotent ==
    pc = "aggregated" => _aggregate(result) = result

\* the first aggregation collapsed duplicate rows into one
C3_Witness ==
    /\ pc = "aggregated"
    /\ Len(result) = 2
    /\ Len(arg) = 3

\* ascending tuple order as the specification words it
TupleAscending(k1, k2) ==
    \/ StrLess(k1[1], k2[1])
    \/ k1[1] = k2[1] /\ k1[2] < k2[2]
    \/ k1[1] = k2[1] /\ k1[2] = k2[2] /\ k1[3] < k2[3]

\* C4: the table returned by _aggregate is strictly ascending in
\* (Reference, Start, End): Reference by code point, Start and End
\* numerically; no two adjacent rows have equal keys.
C4_StrictlyAscending ==
    pc = "aggregated" =>
        \A i \in 1..(Len(result) - 1) :
            TupleAscending(Key(result[i]), Key(result[i + 1]))

\* three distinct keys given in descending order came out ascending
C4_Witness ==
    /\ pc = "aggregated"
    /\ Len(arg) = 3
    /\ Len(result) = 3
    /\ KeyLess(Key(arg[3]), Key(arg[2]))
    /\ KeyLess(Key(arg[2]), Key(arg[1]))
    /\ arg[1].Reference = arg[3].Reference

----------------------------------------------------------------------------
(* Properties of the reconciliation                                        *)

ToSet(seq) == {seq[i] : i \in DOMAIN seq}

NoDuplicates(seq) == Cardinality(ToSet(seq)) = Len(seq)

\* compare_results has computed missing_in_own, extra_in_own, count_mismatch
Reconciled ==
    pc \in {"plot", "solve", "bisect", "solved", "raised", "report", "done"}

\* _plot_venn has computed its three counts
Counted == pc \in {"solve", "bisect", "solved", "raised", "report", "done"}

\* the count of the row of the aggregated table df with key k
CountOf(df, k) == df[CHOOSE i \in DOMAIN df : Key(df[i]) = k].NGS_read_count

MismatchKey(row) == <<row.Reference, row.Start, row.End>>

\* C5: missing is keys(valid) minus keys(own) and extra is keys(own) minus
\* keys(valid), a key being (Reference, Start, End); the read counts play no
\* part.
C5_MissingExtraAreKeyDifferences ==
    Reconciled =>
        /\ ToSet(missing_in_own) = Keys(valid_df) \ Keys(own_df)
        /\ ToSet(extra_in_own) = Keys(own_df) \ Keys(valid_df)
        /\ NoDuplicates(missing_in_own)
        /\ NoDuplicates(extra_in_own)

\* one key is only in valid while a common key carries different counts
C5_Witness ==
    /\ Reconciled
    /\ missing_in_own # <<>>
    /\ extra_in_own = <<>>
    /\ count_mismatch # <<>>

\* C6: swapping the two tables swaps the two classes: missing(valid, own) is
\* extra(own, valid) and extra(valid, own) is missing(own, valid).
C6_SwapSymmetric ==
    Reconciled =>
        /\ missing_in_own = ExtraInOwn(own_df, valid_df)
        /\ extra_in_own = MissingInOwn(own_df, valid_df)

\* both classes are non-empty
C6_Witness ==
    /\ Reconciled
    /\ missing_in_own # <<>>
    /\ extra_in_own # <<>>

\* C7: mismatched has exactly one entry (key, count_valid, count_own) for
\* each common key whose aggregated counts differ, none for a common key
\* with equal counts or for any other key, in ascending key order; valid
\* (chr1,100,200,10) against own (chr1,100,200,7) gives missing and extra
\* empty and the one entry ((chr1,100,200),10,7).
C7_MismatchedEntries ==
    Reconciled =>
        /\ \A k \in Keys(valid_df) \cap Keys(own_df) :
              LET entries == {i \in DOMAIN count_mismatch :
                                 MismatchKey(count_mismatch[i]) = k}
              IN  IF CountOf(valid_df, k) # CountOf(own_df, k)
                  THEN /\ Cardinality(entries) = 1
                       /\ \A i \in entries :
                             /\ count_mismatch[i].NGS_read_count_valid
                                    = CountOf(valid_df, k)
                             /\ count_mismatch[i].NGS_read_count_own
                                    = CountOf(own_df, k)
                  ELSE entries = {}
        /\ \A i \in DOMAIN count_mismatch :
              MismatchKey(count_mismatch[i]) \in Keys(valid_df) \cap Keys(own_df)
        /\ \A i \in 1..(Len(count_mismatch) - 1) :
              TupleAscending(MismatchKey(count_mismatch[i]),
                             MismatchKey(count_mismatch[i + 1]))
        /\ (/\ valid_df = <<Row(chr1, 100, 200, I64(10))>>
            /\ own_df = <<Row(chr1, 100, 200, I64(7))>>)
           => /\ missing_in_own = <<>>
              /\ extra_in_own = <<>>
              /\ count_mismatch =
                    <<[Reference |-> chr1, Start |-> 100, End |-> 200,
                       NGS_read_count_valid |-> I64(10),
                       NGS_read_count_own |-> I64(7)]>>

\* two common keys both differ in count, and the raw valid table listed
\* them in descending key order
C7_Witness ==
    /\ Reconciled
    /\ Len(count_mismatch) = 2
    /\ Len(valid_raw) = 2
    /\ StrLess(Strip(valid_raw[2].Segment), Strip(valid_raw[1].Segment))

\* C8: compare_results returns 0 if and only if missing, extra and
\* mismatched are all empty and 1 in every other completed run; a run whose
\* only discrepancy is a count mismatch returns 1, two tables with the same
\* keys and counts return 0.
C8_ReturnCode ==
    pc = "done" =>
        /\ ret \in {0, 1}
        /\ ret = 0 <=> (/\ missing_in_own = <<>>
                        /\ extra_in_own = <<>>
                        /\ count_mismatch = <<>>)
        /\ valid_df = own_df => ret = 0
        /\ (/\ Keys(valid_df) = Keys(own_df)
            /\ \E k \in Keys(valid_df) : CountOf(valid_df, k) # CountOf(own_df, k))
           => ret = 1

\* a run whose only discrepancy is a count mismatch has returned
C8_Witness ==
    /\ pc = "done"
    /\ missing_in_own = <<>>
    /\ extra_in_own = <<>>
    /\ count_mismatch # <<>>
    /\ ret = 1

\* C9: the counts of _plot_venn, which it computes from the two key sets,
\* agree with the merge-based classification: only_valid = |missing|,
\* only_own = |extra|, both = |keys(valid) /\ keys(own)|, and these are the
\* counts behind the radii and the target handed to the solver; a common key
\* whose counts differ is still counted in both.
C9_VennCountsAgree ==
    Counted =>
        /\ only_valid = Len(missing_in_own)
        /\ only_own = Len(extra_in_own)
        /\ both = Cardinality(Keys(valid_df) \cap Keys(own_df))
        /\ both = Len(MergeCounts(valid_df, own_df))
        /\ both >= Len(count_mismatch)
        /\ r1 = Radius(Len(missing_in_own) + both)
        /\ r2 = Radius(Len(extra_in_own) + both)
        /\ target_area = FromInt(both)

\* the overlap holds a key whose counts differ, next to a key only in own
C9_Witness ==
    /\ Counted
    /\ both = 1
    /\ Len(count_mismatch) = 1
    /\ only_own = 1

----------------------------------------------------------------------------
(* Properties of the solver                                                *)

InRange(d, ra, rb) == FLe(FAbs(FSub(ra, rb)), d) /\ FLe(d, FAdd(ra, rb))

\* C10: for all non-negative counts, and for any target area, the solver
\* raises no exception and returns a (finite) distance with
\* |radius_a - radius_b| <= distance <= radius_a + radius_b.
C10_SolverReturnsDistanceInRange ==
    /\ raised = "none"
    /\ pc = "solved" => InRange(distance, r1, r2)

\* whenever the solver does return, the distance is in the range
C10_InRangeWhenReturned ==
    pc = "solved" => InRange(distance, r1, r2)

\* the solver was called as _plot_venn calls it and has left its first lines
CalledWithBoth ==
    target_area = FromInt(both) /\ pc \in {"bisect", "solved", "raised"}

\* C11: when both = 0 the solver returns radius_a + radius_b exactly without
\* entering the bisection loop (no interval set up, no iteration done), and
\* the overlap area of the two circles at that distance is 0.
C11_DisjointSetsTouch ==
    (CalledWithBoth /\ both = 0) =>
        /\ pc = "solved"
        /\ raised = "none"
        /\ distance = FAdd(r1, r2)
        /\ iter = 0 /\ low = FZero /\ high = FZero
        /\ _circle_intersection_area(r1, r2, distance) = Ok(FZero)

\* two disjoint non-empty key sets of different sizes were placed
C11_Witness ==
    /\ pc = "solved"
    /\ both = 0
    /\ target_area = FZero
    /\ only_valid = 1
    /\ only_own = 3
    /\ distance = FAdd(r1, r2)

\* C12: when both > 0 and one key set is contained in the other (only_valid
\* = 0 or only_own = 0), the target equals the smaller circle's full area
\* and the solver returns |radius_a - radius_b| exactly from the containment
\* branch, not from the bisection.
C12_ContainmentExact ==
    (CalledWithBoth /\ both > 0 /\ (only_valid = 0 \/ only_own = 0)) =>
        /\ target = MaxArea(r1, r2)
        /\ pc = "solved"
        /\ iter = 0
        /\ distance = FAbs(FSub(r1, r2))

\* whenever the clamped target does equal max_area, the containment branch
\* returns |r1 - r2| without any iteration
C12_ExactWhenTargetIsMaxArea ==
    (pc \in {"bisect", "solved", "raised"}
        /\ target # FZero /\ target = MaxArea(r1, r2)) =>
        /\ pc = "solved"
        /\ iter = 0
        /\ distance = FAbs(FSub(r1, r2))

----------------------------------------------------------------------------
(* Properties of _plot_venn                                                *)

\* _plot_venn has drawn and saved the figure
Drawn == pc \in {"report", "done"}

ExactlyOneRadiusZero == (r1 = FZero) # (r2 = FZero)

\* the radius of the circle of the non-empty set
NonEmptyRadius == IF r1 = FZero THEN r2 ELSE r1

\* the count label of the empty set
EmptyLabel == IF r1 = FZero THEN figure.texts[1] ELSE figure.texts[2]

\* C14 as stated: when exactly one radius is 0, the distance between the two
\* centres is a constant that does not depend on the radius of the non-empty
\* circle (so it is the distance used when the non-empty set has one key),
\* and the count label of the empty set is drawn.
C14_FixedOffsetForEmptySet ==
    (Drawn /\ ExactlyOneRadiusZero) =>
        /\ distance = Radius(1)
        /\ Len(figure.texts) = 5
        /\ EmptyLabel.s = Str(0)

\* C14 as amended: when exactly one radius is 0, the distance between the
\* two centres is the radius of the non-empty circle (the zero-target return
\* r1 + r2), so the degenerate point lies on the edge of the one circle that
\* is drawn; the count label "0" of the empty set is drawn, its x position
\* the fixed offset 0.2 beyond its centre.
C14_EmptySetOnCircleEdge ==
    (Drawn /\ ExactlyOneRadiusZero) =>
        /\ both = 0
        /\ distance = NonEmptyRadius
        /\ Len(figure.patches) = 1
        /\ figure.patches[1].radius = NonEmptyRadius
        /\ figure.patches[1].center =
              (IF r1 = FZero THEN <<distance, FZero>> ELSE <<FZero, FZero>>)
        /\ Len(figure.texts) = 5
        /\ EmptyLabel.s = Str(0)
        /\ EmptyLabel.x =
              (IF r1 = FZero THEN FNeg(F0_2) ELSE FAdd(distance, F0_2))

\* the first set is empty, the second has three keys
C14_Witness ==
    /\ Drawn
    /\ r1 = FZero
    /\ only_own = 3
    /\ distance = r2
    /\ distance # Radius(1)

\* C15: when both tables are empty, only_valid = only_own = both = 0, both
\* radii are 0, the solver returns the distance 0.0 from its first return
\* (no exception, no loop iteration), and _plot_venn draws no circle, the
\* five labels, and saves the figure.
C15_AllZeroCounts ==
    (valid_df = <<>> /\ own_df = <<>> /\ Counted) =>
        /\ only_valid = 0 /\ only_own = 0 /\ both = 0
        /\ r1 = FZero /\ r2 = FZero
        /\ raised = "none"
        /\ pc \in {"solve", "solved", "report", "done"}
        /\ iter = 0
        /\ pc # "solve" => distance = FZero /\ target = FZero
        /\ Drawn => /\ venn_file = 1
                    /\ figure.patches = <<>>
                    /\ Len(figure.texts) = 5
                    /\ figure.limits.x_min = FNeg(FHalf)
                    /\ figure.limits.x_max = FHalf

\* _plot_venn has completed for two empty key sets
C15_Witness ==
    /\ valid_df = <<>> /\ own_df = <<>>
    /\ Drawn
    /\ venn_file = 1
    /\ distance = FZero

----------------------------------------------------------------------------
(* Overflow of a group sum                                                 *)

\* the sum w of a group fits into an int64
Fits64(w) == w[5] = 0 /\ w[4] < LimbBase \div 2

\* C16: _aggregate returns a table only if no group sum left the int64
\* range (an overflowing sum is a fatal error), so no returned count is a
\* wrapped-around sum.
C16_OverflowIsFatal ==
    pc = "aggregated" =>
        /\ \A k \in Keys(arg) : Fits64(ExactSum(arg, k))
        /\ \A i \in DOMAIN result : result[i].NGS_read_count[4] < LimbBase \div 2

----------------------------------------------------------------------------
(* Properties of the normalisation                                         *)

NumericColumns == {"Start", "End", "NGS_read_count"}

\* every row of every raw frame, the valid frame first
RawRows == valid_raw \o Concat(own_raw)

LacksColumn(row) ==
    \/ ~(NumericColumns \subseteq DOMAIN row)
    \/ ~("Segment" \in DOMAIN row \/ "Reference" \in DOMAIN row)

\* the row holds a value in Start, End or NGS_read_count that is no number
HoldsNonNumeric(row) ==
    \E c \in NumericColumns \cap DOMAIN row : row[c].kind # "int"

\* compare_results was left by an exception of the normalisation, or has
\* not yet run; nothing was produced
NothingProduced ==
    /\ pc \in {"load", "load_raised"}
    /\ pc = "load_raised" => raised # "none"
    /\ valid_df = <<>> /\ own_df = <<>>
    /\ venn_file = 0
    /\ stdout = <<>>
    /\ ret = -1

\* C17: if any row of either source lacks a required column or holds a
\* non-numeric value in Start, End or NGS_read_count, compare_results raises
\* during normalisation: no aggregated table is produced and neither 0 nor 1
\* is returned.
C17_MalformedInputRaises ==
    (\E i \in DOMAIN RawRows : LacksColumn(RawRows[i]) \/ HoldsNonNumeric(RawRows[i]))
        => NothingProduced

\* the text of the cell is not True or False
NotBoolean(row) ==
    \E c \in NumericColumns \cap DOMAIN row : row[c].kind = "str"

\* a missing column, and a non-numeric value other than True and False, do
\* raise
C17_RaisesUnlessBoolean ==
    (\E i \in DOMAIN RawRows : LacksColumn(RawRows[i]) \/ NotBoolean(RawRows[i]))
        => NothingProduced

\* the reference text of a raw row
RawRef(row) == IF "Segment" \in DOMAIN row THEN row["Segment"] ELSE row["Reference"]

\* s is core with whitespace before and after it, and core itself neither
\* begins nor ends with whitespace
Surrounded(core, s) ==
    /\ core = <<>> \/ (core[1] \notin Whitespace /\ core[Len(core)] \notin Whitespace)
    /\ \E a \in 0..Len(s) :
          \E b \in a..Len(s) :
              /\ core = SubSeq(s, a + 1, b)
              /\ \A n \in 1..a : s[n] \in Whitespace
              /\ \A n \in (b + 1)..Len(s) : s[n] \in Whitespace

\* k is the key of the raw row: its reference without the surrounding
\* whitespace, letter case kept, and its Start and End
KeyOfRaw(row, k) ==
    /\ Surrounded(k[1], RawRef(row))
    /\ k[2] = row.Start.val
    /\ k[3] = row.End.val

\* the int64 sum of the counts of the raw rows with key k
RECURSIVE SumOfRaw(_, _)
SumOfRaw(raw, k) ==
    IF raw = <<>> THEN Zero64
    ELSE IF KeyOfRaw(Head(raw), k)
         THEN Add64(Head(raw).NGS_read_count.val, SumOfRaw(Tail(raw), k))
         ELSE SumOfRaw(Tail(raw), k)

Lower(c) == IF 65 <= c /\ c <= 90 THEN c + 32 ELSE c

\* s and t are different texts that are equal but for the case of letters
DifferInCase(s, t) ==
    /\ s # t
    /\ Len(s) = Len(t)
    /\ \A n \in 1..Len(s) : Lower(s[n]) = Lower(t[n])

\* raw was normalised and aggregated to df
TrimmedNotFolded(raw, df) ==
    /\ \A i \in DOMAIN raw : \E k \in Keys(df) : KeyOfRaw(raw[i], k)
    /\ \A k \in Keys(df) :
          /\ \E i \in DOMAIN raw : KeyOfRaw(raw[i], k)
          /\ CountOf(df, k) = SumOfRaw(raw, k)
    /\ \A i, j \in DOMAIN raw :
          (/\ raw[i].Start = raw[j].Start /\ raw[i].End = raw[j].End
           /\ \E core \in {chr1, Chr1} :
                 Surrounded(core, RawRef(raw[i])) /\ Surrounded(core, RawRef(raw[j])))
          => \E k \in Keys(df) : KeyOfRaw(raw[i], k) /\ KeyOfRaw(raw[j], k)
    /\ \A i, j \in DOMAIN raw :
          DifferInCase(RawRef(raw[i]), RawRef(raw[j]))
          => \E k1, k2 \in Keys(df) :
                k1 # k2 /\ KeyOfRaw(raw[i], k1) /\ KeyOfRaw(raw[j], k2)

\* C18: normalisation removes the whitespace around Reference and leaves the
\* case of its letters: rows whose Reference differ only by surrounding
\* whitespace get one key and are summed into one row, rows whose Reference
\* differ in letter case get different keys.
C18_TrimNoCaseFold ==
    (/\ pc \notin {"load", "load_raised"}
     /\ \A i \in DOMAIN RawRows : ~HoldsNonNumeric(RawRows[i]))
        => /\ TrimmedNotFolded(valid_raw, valid_df)
           /\ TrimmedNotFolded(Concat(own_raw), own_df)

\* " chr1 " and "chr1" were summed into one row of valid_df, while "chr1"
\* and "Chr1" are two rows of own_df
C18_Witness ==
    /\ pc = "merge"
    /\ Len(valid_raw) = 2
    /\ valid_raw[1]["Segment"] = sp_chr1_sp
    /\ valid_raw[2]["Segment"] = chr1
    /\ valid_df = <<Row(chr1, 100, 200, I64(17))>>
    /\ Len(Concat(own_raw)) = 2
    /\ Concat(own_raw)[1]["Reference"] = chr1
    /\ Concat(own_raw)[2]["Reference"] = Chr1
    /\ Len(own_df) = 2

----------------------------------------------------------------------------
(* Properties of the report                                                *)

\* the positions in stdout of the listings with the given title
Section(title) == {i \in DOMAIN stdout : stdout[i].title = title}

\* rows are in strictly ascending key order
RowsAscending(rows) ==
    \A n \in 1..(Len(rows) - 1) :
        TupleAscending(MismatchKey(rows[n]), MismatchKey(rows[n + 1]))

\* the category keys is printed under title as the full rows of owner, in
\* ascending key order, or not at all if it is empty
Listed(title, keys, owner) ==
    IF keys = <<>> THEN Section(title) = {}
    ELSE /\ Cardinality(Section(title)) = 1
         /\ \A i \in Section(title) :
               /\ Len(stdout[i].rows) = Len(keys)
               /\ ToSet(stdout[i].rows) =
                     {owner[n] : n \in {m \in DOMAIN owner :
                                           Key(owner[m]) \in ToSet(keys)}}
               /\ RowsAscending(stdout[i].rows)

\* the mismatches are printed with both counts, in ascending key order, or
\* not at all if there is none
MismatchesListed ==
    IF count_mismatch = <<>> THEN Section("Unterschiede") = {}
    ELSE /\ Cardinality(Section("Unterschiede")) = 1
         /\ \A i \in Section("Unterschiede") :
               /\ Len(stdout[i].rows) = Len(count_mismatch)
               /\ \A n \in DOMAIN stdout[i].rows :
                     LET row == stdout[i].rows[n]
                     IN  /\ MismatchKey(row) \in Keys(valid_df) \cap Keys(own_df)
                         /\ row.NGS_read_count_valid
                                = CountOf(valid_df, MismatchKey(row))
                         /\ row.NGS_read_count_own
                                = CountOf(own_df, MismatchKey(row))
                         /\ row.NGS_read_count_valid # row.NGS_read_count_own
               /\ RowsAscending(stdout[i].rows)

\* each non-empty category is printed once, with full rows: the missing
\* keys as rows of the valid table, the extra keys as rows of the own table,
\* the mismatches with both counts, each listing in ascending key order; an
\* empty category prints nothing, and the OK line is not printed
DiscrepanciesListed ==
    /\ Section("OK") = {}
    /\ Listed("Fehlend", missing_in_own, valid_df)
    /\ Listed("Zusaetzlich", extra_in_own, own_df)
    /\ MismatchesListed
    /\ Len(stdout) = Cardinality(Section("Fehlend") \cup Section("Zusaetzlich")
                                 \cup Section("Unterschiede"))

\* C19: a run with discrepancies (a key missing, a key extra, or a count
\* mismatch) gets to its report and prints each non-empty category with
\* full rows joined back from the owning table, in ascending key order; an
\* empty category prints nothing.
C19_DiscrepanciesArePrinted ==
    (/\ Reconciled
     /\ (missing_in_own # <<>> \/ extra_in_own # <<>> \/ count_mismatch # <<>>))
        => /\ pc # "raised"
           /\ pc = "done" => DiscrepanciesListed

\* every run with discrepancies that does get to its report prints them so
C19_ReportListsFullRows ==
    (pc = "done" /\ ret = 1) => DiscrepanciesListed

----------------------------------------------------------------------------
(* Accuracy and course of the bisection                                    *)

\* the float literals 1e-4 and 1e-6
F1e_4 == FRound(858993, -33)

F1e_6 == FRound(1099512, -40)

\* area was computed and is within max(0.01% of total, 1e-6) of target_
AreaWithin(area, target_, total) ==
    /\ area.err = "none"
    /\ FLe(FAbs(FSub(area.val, target_)),
           FMax(FMul(F1e_4, FromInt(total)), F1e_6))

\* C13: for all non-negative counts the solver returns a distance, and the
\* lens area recomputed by _circle_intersection_area at that distance is
\* within max(0.01% of the total area, 1e-6) of the clamped target
\* min(max(both, 0), pi * min(r1, r2)^2).
C13_LensAreaMatchesTarget ==
    target_area = FromInt(both) =>
        /\ raised = "none"
        /\ pc = "solved" =>
              AreaWithin(_circle_intersection_area(r1, r2, distance),
                         ClampTarget(r1, r2, target_area),
                         only_valid + only_own + both)

\* lo <= hi within [|r1 - r2|, r1 + r2]
IntervalInRange(lo, hi) ==
    /\ FLe(FAbs(FSub(r1, r2)), lo)
    /\ FLe(lo, hi)
    /\ FLe(hi, FAdd(r1, r2))

\* hi_ - lo_ is half of hi - lo, up to the rounding of the midpoint (two
\* units in the last place of hi)
Halved(lo, hi, lo_, hi_) ==
    FLe(FAbs(FSub(FSub(hi_, lo_), FDiv(FSub(hi, lo), FTwo))), FRound(2, hi[2]))

\* one iteration: exactly one of low and high becomes the midpoint
IterationStep ==
    /\ pc' = "bisect"
    /\ iter' = iter + 1
    /\ \/ low' = Midpoint(low, high) /\ high' = high
       \/ low' = low /\ high' = Midpoint(low, high)
    /\ Halved(low, high, low', high')
    /\ IntervalInRange(low', high')

\* C20: in the bisection branch the loop runs exactly 60 iterations and then
\* stops: from every position in the loop the next step is an iteration
\* while fewer than 60 are done, and the return of the midpoint of the final
\* interval once 60 are done; |r1 - r2| <= low <= high <= r1 + r2 holds
\* before and after every iteration, and each iteration replaces exactly one
\* of low and high by the midpoint, which halves high - low.
C20_SixtyHalvingIterations ==
    [][pc = "bisect" =>
          /\ IntervalInRange(low, high)
          /\ iter < Iterations => IterationStep
          /\ iter = Iterations =>
                /\ pc' = "solved"
                /\ distance' = Midpoint(low, high)
                /\ UNCHANGED <<low, high, iter>>]_vars

\* the same for the iterations that raise no exception
C20_IterationsThatComplete ==
    [][(pc = "bisect" /\ pc' # "raised") =>
          /\ IntervalInRange(low, high)
          /\ iter < Iterations => IterationStep
          /\ iter = Iterations =>
                /\ pc' = "solved"
                /\ distance' = Midpoint(low, high)
                /\ UNCHANGED <<low, high, iter>>]_vars

----------------------------------------------------------------------------
(* C21: the lens area is non-increasing in the distance                    *)

\* _circle_intersection_area(r1, r2, d) for the radii of the current call
AreaAt(d) == _circle_intersection_area(r1, r2, d)

\* near is the area at the smaller distance, far at the larger one: both
\* calls return, and the farther area is not the larger
NonIncreasing(near, far) ==
    /\ near.err = "none"
    /\ far.err = "none"
    /\ FLe(far.val, near.val)

\* the areas at the two ends of the interval bracket the target
Brackets(atLow, atHigh) ==
    /\ atLow.err = "none"
    /\ atHigh.err = "none"
    /\ FLe(target, atLow.val)
    /\ FLe(atHigh.val, target)

\* C21: for the radii of a call, the area is non-increasing in the distance
\* over [|r1 - r2|, r1 + r2] -- here at the three distances low <= mid <= high
\* of every interval of the bisection --, it is pi * min(r1, r2)^2 at
\* |r1 - r2| and 0 at r1 + r2, and area(low) >= target >= area(high) holds
\* for the current interval.
C21_AreaNonIncreasing ==
    pc = "bisect" =>
        /\ AreaAt(FAbs(FSub(r1, r2))) = Ok(MaxArea(r1, r2))
        /\ AreaAt(FAdd(r1, r2)) = Ok(FZero)
        /\ NonIncreasing(AreaAt(low), AreaAt(Midpoint(low, high)))
        /\ NonIncreasing(AreaAt(Midpoint(low, high)), AreaAt(high))
        /\ Brackets(AreaAt(low), AreaAt(high))

\* what does hold: the two boundary values, and the bracketing of the
\* target by the areas at the two ends of every interval the loop reaches
C21_IntervalBracketsTarget ==
    pc = "bisect" =>
        /\ AreaAt(FAbs(FSub(r1, r2))) = Ok(MaxArea(r1, r2))
        /\ AreaAt(FAdd(r1, r2)) = Ok(FZero)
        /\ Brackets(AreaAt(low), AreaAt(high))

----------------------------------------------------------------------------
(* C22: the target is clamped, then compared                               *)

\* target_area brought into [0, max_area], said without min and max
Clamped(target_area_, max_area) ==
    IF FLe(target_area_, FZero) THEN FZero
    ELSE IF FLe(max_area, target_area_) THEN max_area
    ELSE target_area_

\* the solver has passed lines 142-149
Entered == pc \in {"bisect", "solved", "raised"}

\* the solver returned from line 145 or line 147, without bisecting
ReturnedAtBoundary == pc = "solved" /\ iter = 0

\* C22: the target the two boundary tests see is the clamped one; a zero
\* target returns r1 + r2 even when it is also the full area of the smaller
\* circle, a full non-zero target returns |r1 - r2|, and the bisection is
\* entered only with 0 < target < pi * min(r1, r2)^2, so with both radii
\* positive.
C22_ClampThenCompare ==
    Entered =>
        /\ target = Clamped(target_area, MaxArea(r1, r2))
        /\ ReturnedAtBoundary =>
               IF target = FZero THEN distance = FAdd(r1, r2)
               ELSE /\ target = MaxArea(r1, r2)
                    /\ distance = FAbs(FSub(r1, r2))
        /\ ~ReturnedAtBoundary =>
               /\ FLt(FZero, target)
               /\ FLt(target, MaxArea(r1, r2))
               /\ FLt(FZero, r1)
               /\ FLt(FZero, r2)

\* a target area above the smaller circle's area was clamped to it, and the
\* containment test returned |r1 - r2|
C22_Witness ==
    /\ ReturnedAtBoundary
    /\ FLt(FZero, MaxArea(r1, r2))
    /\ FLt(MaxArea(r1, r2), target_area)
    /\ target = MaxArea(r1, r2)
    /\ distance = FAbs(FSub(r1, r2))

----------------------------------------------------------------------------
(* C23: the image is written once, between aggregation and report          *)

\* both raw sources normalise without an exception, and valid_df and own_df
\* are their aggregated tables
TablesAggregated(valid, own) ==
    /\ valid.err = "none"
    /\ own.err = "none"
    /\ valid_df = _aggregate(valid.df)
    /\ own_df = _aggregate(Concat(own.df))

\* no report line was printed and no status returned
NoReport == stdout = <<>> /\ ret = -1

\* C23: the image file is written at most once, and only when both tables
\* are normalised and aggregated; whenever a report line is printed or a
\* status returned the image has been written; a run that raised while
\* loading wrote no image and printed nothing, a run that raised in the
\* solver or in savefig printed nothing, and a run that returned 0 or 1
\* wrote the image.
C23_ImageOnceBeforeReport ==
    /\ venn_file \in {0, 1}
    /\ venn_file = 1 =>
           /\ TablesAggregated(_normalize_valid(valid_raw),
                               NormalizeOwnFrames(own_raw))
           /\ pc \in {"report", "done", "save_raised"}
    /\ pc = "load_raised" => venn_file = 0 /\ NoReport
    /\ pc \in {"raised", "save_raised"} => NoReport
    /\ pc = "raised" => venn_file = 0
    /\ ~NoReport => venn_file = 1 /\ pc = "done"
    /\ ret \in {0, 1} => venn_file = 1

\* the writing itself: one step, taken from the state in which the solver
\* has returned, before anything is printed or returned
C23_WrittenBeforeReport ==
    [][venn_file' # venn_file =>
           /\ pc = "solved"
           /\ venn_file = 0
           /\ NoReport
           /\ NoReport']_vars

\* a run that wrote the image, printed report lines and returned 1
C23_Witness ==
    /\ pc = "done"
    /\ venn_file = 1
    /\ ret = 1
    /\ stdout # <<>>

\* a run whose savefig raised: no report
C23_WitnessSaveFailed ==
    /\ pc = "save_raised"
    /\ raised = "OSError"
    /\ NoReport

----------------------------------------------------------------------------
(* C24: division by zero in _circle_intersection_area                      *)

\* one of r1, r2, distance of the stand-alone call is zero
SomeArgZero == \E i \in 1..3 : arg[i] = FZero

\* the call returned from line 117 or line 119
ReturnedByGuard ==
    \/ result = Ok(FZero)
    \/ result = Ok(SmallerCircleArea(FMin(arg[1], arg[2])))

C24_ZeroArgReturnsByGuard ==
    (pc = "area_returned" /\ SomeArgZero) => ReturnedByGuard

\* and no call made by the solver for the radii of key sets divides by zero
C24_NoneFromKeySets == raised # "ZeroDivisionError"

----------------------------------------------------------------------------
(* C25: missing, extra and common partition the keys                       *)

\* the keys of the inner merge of the two aggregated tables
CommonKeys ==
    {MismatchKey(MergeCounts(valid_df, own_df)[i]) :
        i \in DOMAIN MergeCounts(valid_df, own_df)}

PairwiseDisjoint(A, B, C) ==
    /\ A \cap B = {}
    /\ A \cap C = {}
    /\ B \cap C = {}

\* C25: missing, extra and common are pairwise disjoint and together are
\* keys(valid) \cup keys(own); only_valid + both is the number of keys and of
\* rows of the valid table, only_own + both that of the own table; and every
\* mismatched key is a common key, neither missing nor extra.
C25_KeysPartitioned ==
    Counted =>
        /\ PairwiseDisjoint(ToSet(missing_in_own), ToSet(extra_in_own),
                            CommonKeys)
        /\ ToSet(missing_in_own) \cup ToSet(extra_in_own) \cup CommonKeys
               = Keys(valid_df) \cup Keys(own_df)
        /\ both = Cardinality(CommonKeys)
        /\ only_valid + both = Cardinality(Keys(valid_df))
        /\ only_valid + both = Len(valid_df)
        /\ only_own + both = Cardinality(Keys(own_df))
        /\ only_own + both = Len(own_df)
        /\ \A i \in DOMAIN count_mismatch :
               /\ MismatchKey(count_mismatch[i]) \in CommonKeys
               /\ MismatchKey(count_mismatch[i])
                      \notin ToSet(missing_in_own) \cup ToSet(extra_in_own)

\* keys of all three classes, and a common key whose counts differ
C25_Witness ==
    /\ Counted
    /\ only_valid >= 2
    /\ only_own >= 2
    /\ both >= 2
    /\ count_mismatch # <<>>
    /\ Len(count_mismatch) < both

====
